---- MODULE Spec2Model ----
(***************************************************************************)
(* A model of bot.py: the anti-flood middleware, the application FSM       *)
(* (Apply.name .. Apply.experience) kept in aiogram's MemoryStorage, the   *)
(* router's handler table and the handlers, each run as an asyncio task    *)
(* that is suspended at its network awaits.                                *)
(*                                                                         *)
(* Time is counted in tenths of a second.  A text is a sequence of         *)
(* characters; a character is a one-element string, except the atoms       *)
(* "sup2" (U+00B2, a digit that is not a decimal digit) and the command    *)
(* names that follow a "/".                                                *)
(***************************************************************************)
EXTENDS Integers, Sequences, FiniteSets, TLC

\* ------------------------------------------------------------------ bounds

\* The clock stops at MaxTime.
MaxTime == 48
\* Tasks of the dispatcher that may be suspended at the same time.
MaxTasks == 2
\* The clock of the rate gate's specification stops at GateTime.
GateTime == 20
\* The clock of the concurrent specification stops at SpecTime.
SpecTime == 16
\* Ages entered as a decimal string run over 0..MaxAge.
MaxAge == 19
\* The clock of the two-flows specification stops at FlowsTime.
FlowsTime == 32
\* The clock of the concurrent application's specification stops at ApplyTime.
ApplyTime == 40
\* The utterances given to normalize have up to MaxLen characters.
MaxLen == 3

\* --------------------------------------------------------------- constants

\* limit_msg = 0.8 s and limit_cb = 0.3 s, in tenths of a second.
limit_msg == 8
limit_cb == 3
\* The age below which apply_age rejects.
MinAge == 18
\* best_faq_answer's threshold 0.63, in hundredths.
threshold == 63

Users == {"u1", "u2"}

\* ------------------------------------------------------------------- texts

DecimalDigits == {"0", "1", "2", "3", "4", "5", "6", "7", "8", "9"}

\* str.isdigit() is true of every character with Numeric_Type Digit or
\* Decimal: the decimal digits and also superscripts such as U+00B2.
DigitChars == DecimalDigits \cup {"sup2"}

\* The whitespace str.strip() and the pattern \s know: the space and the tab.
Whitespace == {" ", "tab"}

DigitValue(c) ==
    CASE c = "0" -> 0 [] c = "1" -> 1 [] c = "2" -> 2 [] c = "3" -> 3
      [] c = "4" -> 4 [] c = "5" -> 5 [] c = "6" -> 6 [] c = "7" -> 7
      [] c = "8" -> 8 [] c = "9" -> 9

DigitChar(n) ==
    CASE n = 0 -> "0" [] n = 1 -> "1" [] n = 2 -> "2" [] n = 3 -> "3"
      [] n = 4 -> "4" [] n = 5 -> "5" [] n = 6 -> "6" [] n = 7 -> "7"
      [] n = 8 -> "8" [] n = 9 -> "9"

RECURSIVE lstrip(_)
lstrip(t) ==
    IF t # <<>> /\ Head(t) \in Whitespace THEN lstrip(Tail(t)) ELSE t

RECURSIVE rstrip(_)
rstrip(t) ==
    IF t # <<>> /\ t[Len(t)] \in Whitespace
    THEN rstrip(SubSeq(t, 1, Len(t) - 1))
    ELSE t

\* str.strip()
strip(t) == rstrip(lstrip(t))

\* str.isdigit(): non-empty and every character a digit.
isdigit(t) == t # <<>> /\ \A i \in 1..Len(t) : t[i] \in DigitChars

\* int(t) raises ValueError unless every character is a decimal digit.
IntRaises(t) == \E i \in 1..Len(t) : t[i] \notin DecimalDigits

RECURSIVE int(_)
int(t) ==
    IF t = <<>> THEN 0
    ELSE 10 * int(SubSeq(t, 1, Len(t) - 1)) + DigitValue(t[Len(t)])

\* str(n) of a natural number.
RECURSIVE str(_)
str(n) ==
    IF n < 10 THEN <<DigitChar(n)>>
    ELSE Append(str(n \div 10), DigitChar(n % 10))

\* aiogram's Command(c) filter: the message has text, and its first word is
\* "/" followed by c.
IsCommand(ev, c) ==
    /\ ev.cls = "message"
    /\ ev.has_text
    /\ Len(ev.text) >= 2
    /\ ev.text[1] = "/"
    /\ ev.text[2] = c
    /\ (Len(ev.text) > 2 => ev.text[3] \in Whitespace)

\* ---------------------------------------------------------- knowledge base

\* The categories of faq.json as loaded at import: two categories, the first
\* of two items, the second of one item that carries an image.
CATEGORIES ==
    << [title |-> "T1",
        items |-> << [patterns |-> <<"p111", "p112">>, answer |-> "A11", image |-> FALSE],
                     [patterns |-> <<"p121">>, answer |-> "A12", image |-> FALSE] >>],
       [title |-> "T2",
        items |-> << [patterns |-> <<"p211">>, answer |-> "A21", image |-> TRUE] >>] >>

\* The characters the second re.sub of normalize removes.
Punctuation == {".", ",", "!", "?", "(", ")", "-", ":", ";"}

\* str.lower(), character by character.
LowerOf(ch) == CASE ch = "A" -> "a" [] ch = "B" -> "b" [] OTHER -> ch

lower(t) == [i \in 1..Len(t) |-> LowerOf(t[i])]

\* re.sub(r"[\s]+", " ", text): every run of whitespace becomes one space.
RECURSIVE collapse(_)
collapse(t) ==
    IF t = <<>> THEN <<>>
    ELSE IF Head(t) \in Whitespace THEN <<" ">> \o collapse(lstrip(t))
    ELSE <<Head(t)>> \o collapse(Tail(t))

\* re.sub(r"[.,!?()\-:;]", "", text)
RECURSIVE remove(_)
remove(t) ==
    IF t = <<>> THEN <<>>
    ELSE IF Head(t) \in Punctuation THEN remove(Tail(t))
    ELSE <<Head(t)>> \o remove(Tail(t))

normalize(text) == remove(collapse(strip(lower(text))))

\* The (category, item, pattern) positions in the order of the three nested
\* loops of best_faq_answer.
RECURSIVE ScanFrom(_, _, _)
ScanFrom(c, i, p) ==
    IF c > Len(CATEGORIES) THEN <<>>
    ELSE IF i > Len(CATEGORIES[c].items) THEN ScanFrom(c + 1, 1, 1)
    ELSE IF p > Len(CATEGORIES[c].items[i].patterns) THEN ScanFrom(c, i + 1, 1)
    ELSE <<(<<c, i, p>>)>> \o ScanFrom(c, i, p + 1)

PatternKeys == {ScanFrom(1, 1, 1)[k] : k \in 1..Len(ScanFrom(1, 1, 1))}

\* The loop with >= for >: of the patterns with the best score the last wins.
RECURSIVE BestLoop_last_wins(_, _, _, _)
BestLoop_last_wins(keys, sc, best_score, best_item) ==
    IF keys = <<>> THEN [item |-> best_item, score |-> best_score]
    ELSE LET k == Head(keys)
         IN  IF sc[k] >= best_score
             THEN BestLoop_last_wins(Tail(keys), sc, sc[k], <<(<<k[1], k[2]>>)>>)
             ELSE BestLoop_last_wins(Tail(keys), sc, best_score, best_item)

\* The loop of best_faq_answer over the positions left, with the scores
\* SequenceMatcher gives (sc, in hundredths) and best_score, best_item so far.
\* No item is <<>>, an item is <<(<<c, i>>)>>.
RECURSIVE BestLoop(_, _, _, _)
BestLoop(keys, sc, best_score, best_item) ==
    IF keys = <<>> THEN [item |-> best_item, score |-> best_score]
    ELSE LET k == Head(keys)
         IN  IF sc[k] > best_score
             THEN BestLoop(Tail(keys), sc, sc[k], <<(<<k[1], k[2]>>)>>)
             ELSE BestLoop(Tail(keys), sc, best_score, best_item)

best_faq_answer(sc) ==
    LET r == BestLoop(ScanFrom(1, 1, 1), sc, 0, <<>>)
    IN  IF r.score >= threshold THEN r ELSE [item |-> <<>>, score |-> r.score]

\* Python's seq[i] for a list of length n: 0..n-1 and -n..-1 are positions,
\* anything else raises IndexError.  The result is the 1-based position.
IndexRaises(n, i) == i >= n \/ i < -n
PyIndex(n, i) == IF i >= 0 THEN i + 1 ELSE n + i + 1

\* ------------------------------------------------------------------ events

ZeroScores == [k \in PatternKeys |-> 0]

\* A message with text t whose similarity to the patterns is sc.
Msg(t, sc) ==
    [cls |-> "message", has_text |-> TRUE, text |-> t, data |-> "",
     ci |-> 0, ii |-> 0, sc |-> sc]

\* A message without text (a photo, a sticker): message.text is None.
NoTextMsg ==
    [cls |-> "message", has_text |-> FALSE, text |-> <<>>, data |-> "",
     ci |-> 0, ii |-> 0, sc |-> ZeroScores]

\* A callback query with data d, "cat:ci" or "item:ci:ii".
Cb(d, ci, ii) ==
    [cls |-> "callback", has_text |-> FALSE, text |-> <<>>, data |-> d,
     ci |-> ci, ii |-> ii, sc |-> ZeroScores]

\* ------------------------------------------------------------------- state

\* raw_state None and the four states of class Apply.
NoState == "None"
ApplyStates == {"name", "age", "contact", "experience"}

VARIABLES
    now,              \* time.monotonic()
    last_msg,         \* AntiFloodMiddleware._last_msg
    last_cb,          \* AntiFloodMiddleware._last_cb
    fsm_state,        \* MemoryStorage: each user's state
    fsm_data,         \* MemoryStorage: each user's data dict
    SUPPORT_CHAT_ID,  \* whether the support group is configured
    ADMIN_CHAT_ID,    \* whether the admin chat is configured
    tasks,            \* the handler tasks suspended at an await
    started,          \* per user: what was accepted since the last start_apply
    delivered,        \* per user: summaries sent since the last start_apply
    out,              \* what the last step did, as seen from outside
    arg,              \* the argument a function of the module is called with
    ret               \* what its calls returned, in order

vars ==
    <<now, last_msg, last_cb, fsm_state, fsm_data, SUPPORT_CHAT_ID,
      ADMIN_CHAT_ID, tasks, started, delivered, out, arg, ret>>

\* dict.get(k, default)
get(d, k, default) == IF k \in DOMAIN d THEN d[k] ELSE default

\* d[k] = v
put(d, k, v) == [x \in DOMAIN d \cup {k} |-> IF x = k THEN v ELSE d[x]]

EmptyDict == [x \in {} |-> 0]

\* ---------------------------------------------------- a handler's execution

(***************************************************************************)
(* A context c is a handler's view while it runs between two awaits: the   *)
(* user's state and data in MemoryStorage, what the handling of the event  *)
(* has emitted so far, and pc, the await it stops at ("run": running,      *)
(* "done": returned).  exc names the exception that ended the handler.     *)
(* f says which collaborator calls of this stretch fail: f.log = n makes   *)
(* the n-th log_message of the stretch raise, f.fwd and f.admin make the   *)
(* awaited forward_message and send_message raise.                         *)
(***************************************************************************)

NoFault == [log |-> 0, fwd |-> FALSE, admin |-> FALSE]

Raise(c, e) == [c EXCEPT !.exc = e, !.pc = "done"]

\* log_message: open(LOG_FILE, "a") and f.write, which raise OSError when
\* the file cannot be written; nothing catches it.
log_message(c, f) ==
    IF f.log = c.nlog + 1
    THEN [Raise(c, "OSError") EXCEPT !.nlog = @ + 1, !.failed = @ \cup {"log"}]
    ELSE [c EXCEPT !.nlog = @ + 1]

\* log_and_forward_incoming up to its await: the log line, then the call of
\* bot.forward_message when SUPPORT_CHAT_ID is set.
log_and_forward_incoming(c, f) ==
    LET c1 == log_message(c, f)
    IN  IF c1.exc # "" THEN c1
        ELSE IF SUPPORT_CHAT_ID THEN [c1 EXCEPT !.pc = "forward_message"]
        ELSE c1

\* send_and_log up to its await: the log line, then message.answer(text).
\* cont names what the handler does once the answer has been sent.
send_and_log(c, f, text, cont) ==
    LET c1 == log_message(c, f)
    IN  IF c1.exc # "" THEN c1
        ELSE [c1 EXCEPT !.replies = Append(@, text), !.pc = cont]

\* FSMContext over MemoryStorage: none of these suspends.
set_state(c, s) == [c EXCEPT !.state = s]

update_data(c, k, v) ==
    [c EXCEPT !.data = put(@, k, v), !.acc = put(@, k, v)]

clear(c) ==
    [c EXCEPT !.state = NoState, !.data = EmptyDict, !.acc = EmptyDict]

\* data.get(k): <<>> is None, <<v>> a value.
Get(d, k) == IF k \in DOMAIN d THEN <<d[k]>> ELSE <<>>

\* The summary apply_done formats: the four fields in the order of its lines.
summary(d) ==
    <<Get(d, "name"), Get(d, "age"), Get(d, "contact"), Get(d, "experience")>>

\* A reply: its text, and the category and item it shows (0: none).
Reply(t) == <<t, 0, 0>>

\* ---------------------------------------------------------------- handlers

(***************************************************************************)
(* Each handler is given from the return of log_and_forward_incoming (the  *)
(* callbacks cb_category and cb_item: from their first line) to its first  *)
(* await; After continues a handler from the await it was suspended at.    *)
(***************************************************************************)

on_start(c, ev, f) == send_and_log(c, f, Reply("greeting"), "answer_end")

on_help(c, ev, f) == send_and_log(c, f, Reply("help"), "answer_end")

on_faq(c, ev, f) == send_and_log(c, f, Reply("choose_category"), "answer_end")

\* cb_faq awaits on_faq(callback.message, bot), then callback.answer().
cb_faq(c, ev, f) == send_and_log(c, f, Reply("choose_category"), "answer_ack")

cb_category(c, ev, f) ==
    IF IndexRaises(Len(CATEGORIES), ev.ci) THEN Raise(c, "IndexError")
    ELSE send_and_log(c, f, <<"category", PyIndex(Len(CATEGORIES), ev.ci), 0>>,
                      "answer_edit")

cb_item(c, ev, f) ==
    IF IndexRaises(Len(CATEGORIES), ev.ci) THEN Raise(c, "IndexError")
    ELSE LET cidx == PyIndex(Len(CATEGORIES), ev.ci)
             items == CATEGORIES[cidx].items
         IN  IF IndexRaises(Len(items), ev.ii) THEN Raise(c, "IndexError")
             ELSE send_and_log(c, f, <<"answer", cidx, PyIndex(Len(items), ev.ii)>>,
                               "answer_ack")

start_apply(c, ev, f) ==
    send_and_log(c, f, Reply("ask_name"), "answer_set_name")

apply_name(c, ev, f) ==
    IF ~ev.has_text THEN Raise(c, "AttributeError")
    ELSE send_and_log(update_data(c, "name", strip(ev.text)), f,
                      Reply("ask_age"), "answer_set_age")

\* apply_age with the age test off by one: age <= 18 is rejected.
apply_age_off_by_one(c, ev, f) ==
    IF ~ev.has_text THEN Raise(c, "AttributeError")
    ELSE LET age_text == strip(ev.text)
         IN  IF ~isdigit(age_text)
             THEN send_and_log(c, f, Reply("digits_please"), "answer_end")
             ELSE IF IntRaises(age_text) THEN Raise(c, "ValueError")
             ELSE IF int(age_text) <= MinAge
             THEN send_and_log(c, f, Reply("age_restricted"), "answer_clear")
             ELSE send_and_log(update_data(c, "age", int(age_text)), f,
                               Reply("ask_contact"), "answer_set_contact")

apply_age(c, ev, f) ==
    IF ~ev.has_text THEN Raise(c, "AttributeError")
    ELSE LET age_text == strip(ev.text)
         IN  IF ~isdigit(age_text)
             THEN send_and_log(c, f, Reply("digits_please"), "answer_end")
             ELSE IF IntRaises(age_text) THEN Raise(c, "ValueError")
             ELSE IF int(age_text) < MinAge
             THEN send_and_log(c, f, Reply("age_restricted"), "answer_clear")
             ELSE send_and_log(update_data(c, "age", int(age_text)), f,
                               Reply("ask_contact"), "answer_set_contact")

apply_contact(c, ev, f) ==
    IF ~ev.has_text THEN Raise(c, "AttributeError")
    ELSE send_and_log(update_data(c, "contact", strip(ev.text)), f,
                      Reply("ask_experience"), "answer_set_experience")

\* apply_done reading the data after state.clear().
apply_done_reads_late(c, ev, f) ==
    IF ~ev.has_text THEN Raise(c, "AttributeError")
    ELSE LET c1 == clear(update_data(c, "experience", strip(ev.text)))
             c2 == [c1 EXCEPT !.loc = c1.data, !.accloc = c1.acc]
         IN  send_and_log(c2, f, Reply("confirmation"), "answer_summary")

\* data = await state.get_data() is kept in loc (and what was accepted since
\* the last start in accloc) across state.clear().
apply_done(c, ev, f) ==
    IF ~ev.has_text THEN Raise(c, "AttributeError")
    ELSE LET c1 == update_data(c, "experience", strip(ev.text))
             c2 == [c1 EXCEPT !.loc = c1.data, !.accloc = c1.acc]
         IN  send_and_log(clear(c2), f, Reply("confirmation"), "answer_summary")

contact(c, ev, f) ==
    send_and_log(c, f, Reply("contact_info"),
                 IF ev.cls = "message" THEN "answer_end" ELSE "answer_ack")

on_free_text(c, ev, f) ==
    LET r == best_faq_answer(ev.sc)
    IN  IF r.item # <<>>
        THEN LET k == r.item[1]
             IN  IF CATEGORIES[k[1]].items[k[2]].image
                 THEN [c EXCEPT !.replies = Append(@, <<"photo", k[1], k[2]>>),
                                !.pc = "send_photo"]
                 ELSE send_and_log(c, f, <<"answer", k[1], k[2]>>, "answer_end")
        ELSE send_and_log(c, f, Reply("fallback"), "answer_end")

Body(h, c, ev, f) ==
    CASE h = "on_start" -> on_start(c, ev, f)
      [] h = "on_help" -> on_help(c, ev, f)
      [] h = "on_faq" -> on_faq(c, ev, f)
      [] h = "cb_faq" -> cb_faq(c, ev, f)
      [] h = "cb_category" -> cb_category(c, ev, f)
      [] h = "cb_item" -> cb_item(c, ev, f)
      [] h = "start_apply" -> start_apply(c, ev, f)
      [] h = "apply_name" -> apply_name(c, ev, f)
      [] h = "apply_age" -> apply_age(c, ev, f)
      [] h = "apply_contact" -> apply_contact(c, ev, f)
      [] h = "apply_done" -> apply_done(c, ev, f)
      [] h = "contact" -> contact(c, ev, f)
      [] h = "on_free_text" -> on_free_text(c, ev, f)

\* The handler from its first line to its first await.
Begin(h, c, ev, f) ==
    IF h \in {"cb_category", "cb_item"} THEN Body(h, c, ev, f)
    ELSE LET c1 == log_and_forward_incoming(c, f)
         IN  IF c1.exc # "" \/ c1.pc # "run" THEN c1 ELSE Body(h, c1, ev, f)

Done(c) == [c EXCEPT !.pc = "done"]

\* callback.answer()
Ack(c) == [c EXCEPT !.acked = TRUE, !.pc = "callback_answer"]

\* The end of apply_done: the summary goes to the admin chat when
\* ADMIN_CHAT_ID is set, and is printed otherwise.
SendSummary(c) ==
    IF ADMIN_CHAT_ID
    THEN [c EXCEPT !.staff = <<summary(c.loc)>>, !.pc = "send_message"]
    ELSE Done([c EXCEPT !.printed = Append(@, "no_admin")])

\* bot.send_message without the try/except.
send_message_uncaught(c, f) ==
    IF f.admin THEN [Raise(c, "TelegramAPIError") EXCEPT !.failed = @ \cup {"admin"}]
    ELSE c

\* The try/except around bot.send_message: a failure is printed.
send_message_returned(c, f) ==
    IF f.admin
    THEN [c EXCEPT !.printed = Append(@, "admin_failed"),
                   !.failed = @ \cup {"admin"}]
    ELSE c

\* The try/except around bot.forward_message: a failure is printed.
forward_message_returned(c, f) ==
    IF f.fwd
    THEN [c EXCEPT !.printed = Append(@, "forward_failed"),
                   !.failed = @ \cup {"forward"}]
    ELSE c

\* bot.send_message has returned: the admin chat has one summary more.
Sent(c, f) == IF f.admin THEN c ELSE [c EXCEPT !.ndel = @ + 1]

\* The handler from the return of the await pc to its next await.
After(h, pc, c, ev, f) ==
    CASE pc = "forward_message" ->
            Body(h, forward_message_returned(c, f), ev, f)
      [] pc = "answer_end" -> Done(c)
      [] pc = "answer_ack" -> Ack(c)
      [] pc = "answer_edit" ->
            [c EXCEPT !.replies = Append(@, <<"category_menu", PyIndex(Len(CATEGORIES), ev.ci), 0>>),
                      !.pc = "edit_text"]
      [] pc = "edit_text" -> Ack(c)
      [] pc = "callback_answer" -> Done(c)
      [] pc = "answer_set_name" ->
            LET c1 == [set_state(c, "name") EXCEPT !.acc = EmptyDict, !.ndel = 0]
            IN  IF ev.cls = "message" THEN Done(c1) ELSE Ack(c1)
      [] pc = "answer_set_age" -> Done(set_state(c, "age"))
      [] pc = "answer_clear" -> Done(clear(c))
      [] pc = "answer_set_contact" -> Done(set_state(c, "contact"))
      [] pc = "answer_set_experience" -> Done(set_state(c, "experience"))
      [] pc = "answer_summary" -> SendSummary(c)
      [] pc = "send_message" -> Done(Sent(send_message_returned(c, f), f))
      [] pc = "send_photo" -> Done(log_message(c, f))

\* ------------------------------------------------------------------ router

\* The router with on_free_text registered without its StateFilter and ahead
\* of the handlers of the Apply states.
Route_free_text_first(ev, raw_state) ==
    IF ev.cls = "message"
    THEN CASE IsCommand(ev, "start") -> "on_start"
           [] IsCommand(ev, "help") -> "on_help"
           [] IsCommand(ev, "faq") -> "on_faq"
           [] IsCommand(ev, "apply") -> "start_apply"
           [] OTHER -> "on_free_text"
    ELSE CASE ev.data = "faq" -> "cb_faq"
           [] ev.data = "cat" -> "cb_category"
           [] ev.data = "item" -> "cb_item"
           [] ev.data = "apply" -> "start_apply"
           [] ev.data = "contact" -> "contact"
           [] OTHER -> "UNHANDLED"

\* The handler the router picks: the first, in the order of registration
\* (bot.py top to bottom), whose filter accepts the event.  raw_state is the
\* state FSMContextMiddleware read when the update arrived.
Route(ev, raw_state) ==
    IF ev.cls = "message"
    THEN CASE IsCommand(ev, "start") -> "on_start"
           [] IsCommand(ev, "help") -> "on_help"
           [] IsCommand(ev, "faq") -> "on_faq"
           [] IsCommand(ev, "apply") -> "start_apply"
           [] raw_state = "name" -> "apply_name"
           [] raw_state = "age" -> "apply_age"
           [] raw_state = "contact" -> "apply_contact"
           [] raw_state = "experience" -> "apply_done"
           [] IsCommand(ev, "contact") -> "contact"
           [] raw_state = NoState -> "on_free_text"
           [] OTHER -> "UNHANDLED"
    ELSE CASE ev.data = "faq" -> "cb_faq"
           [] ev.data = "cat" -> "cb_category"
           [] ev.data = "item" -> "cb_item"
           [] ev.data = "apply" -> "start_apply"
           [] ev.data = "contact" -> "contact"
           [] OTHER -> "UNHANDLED"

\* ------------------------------------------------------------- the actions

\* The gate with <= for <: an event exactly limit after the last is dropped.
Admitted_inclusive(t, last, limit) == ~((t - last) <= limit)

\* AntiFloodMiddleware: an event at time t, the last admitted one at time
\* last, passes unless (now - last) < limit.
Admitted(t, last, limit) == ~((t - last) < limit)

\* The dict and the limit of the event's class.
Last(ev) == IF ev.cls = "message" THEN last_msg ELSE last_cb

Limit(ev) == IF ev.cls = "message" THEN limit_msg ELSE limit_cb

\* The gate recording the time of every event, dropped ones included.
Stamp_always(d, u, t, limit) == put(d, u, t)

\* The dict d of last admitted times after an event of user u at time t.
Stamp(d, u, t, limit) ==
    IF Admitted(t, get(d, u, 0), limit) THEN put(d, u, t) ELSE d

NoStep ==
    [kind |-> "tick", user |-> "", handler |-> "", ev |-> NoTextMsg,
     pc |-> "", replies |-> <<>>, staff |-> <<>>, acked |-> FALSE,
     exc |-> "", printed |-> <<>>, failed |-> {}, pre_state |-> NoState,
     pre_data |-> EmptyDict, accepted |-> EmptyDict, next |-> ""]

\* The context of a handler of user u that starts or resumes now.
Context(u, t) ==
    [state |-> fsm_state[u], data |-> fsm_data[u], acc |-> started[u],
     pc |-> "run", replies |-> t.replies, staff |-> t.staff,
     acked |-> t.acked, exc |-> "", printed |-> t.printed, nlog |-> 0,
     failed |-> t.failed, loc |-> t.loc, accloc |-> t.accloc,
     ndel |-> delivered[u]]

NewTask(u, h, ev) ==
    [user |-> u, handler |-> h, ev |-> ev, pc |-> "run", replies |-> <<>>,
     staff |-> <<>>, acked |-> FALSE, printed |-> <<>>, failed |-> {},
     loc |-> EmptyDict, accloc |-> EmptyDict,
     pre_state |-> fsm_state[u], pre_data |-> fsm_data[u]]

\* The task t after the stretch that ended in context c.
Suspended(t, c) ==
    [t EXCEPT !.pc = c.pc, !.replies = c.replies, !.staff = c.staff,
              !.acked = c.acked, !.printed = c.printed, !.failed = c.failed,
              !.loc = c.loc, !.accloc = c.accloc]

Observed(kind, t, from, c) ==
    [kind |-> kind, user |-> t.user, handler |-> t.handler, ev |-> t.ev,
     pc |-> from, replies |-> c.replies, staff |-> c.staff,
     acked |-> c.acked, exc |-> c.exc, printed |-> c.printed,
     failed |-> c.failed, pre_state |-> t.pre_state,
     pre_data |-> t.pre_data, accepted |-> c.accloc, next |-> c.pc]

\* What a stretch of task t that ended in context c leaves behind; rest are
\* the other suspended tasks, at is t's place among them.
Commit(kind, t, from, c, rest, at) ==
    /\ fsm_state' = [fsm_state EXCEPT ![t.user] = c.state]
    /\ fsm_data' = [fsm_data EXCEPT ![t.user] = c.data]
    /\ started' = [started EXCEPT ![t.user] = c.acc]
    /\ delivered' = [delivered EXCEPT ![t.user] = c.ndel]
    /\ tasks' = IF c.pc = "done" THEN rest
                ELSE SubSeq(rest, 1, at - 1) \o <<Suspended(t, c)>>
                     \o SubSeq(rest, at, Len(rest))
    /\ out' = Observed(kind, t, from, c)

\* AntiFloodMiddleware.__call__ around the handler the router picked, up to
\* the handler's first await.  cap bounds the tasks suspended at a time.
AntiFloodMiddleware_call(u, ev, f, cap) ==
    /\ Len(tasks) < cap
    /\ Route(ev, fsm_state[u]) # "UNHANDLED"
    /\ LET h == Route(ev, fsm_state[u])
           t == NewTask(u, h, ev)
       IN  /\ IF ev.cls = "message"
              THEN /\ last_msg' = Stamp(last_msg, u, now, limit_msg)
                   /\ UNCHANGED last_cb
              ELSE /\ last_cb' = Stamp(last_cb, u, now, limit_cb)
                   /\ UNCHANGED last_msg
           /\ IF ~Admitted(now, get(Last(ev), u, 0), Limit(ev))
              THEN /\ out' = [NoStep EXCEPT !.kind = "reject", !.user = u,
                                            !.ev = ev,
                                            !.acked = (ev.cls = "callback")]
                   /\ UNCHANGED <<fsm_state, fsm_data, started, delivered,
                                  tasks>>
              ELSE Commit("admit", t, "run", Begin(h, Context(u, t), ev, f),
                          tasks, Len(tasks) + 1)
    /\ UNCHANGED <<now, SUPPORT_CHAT_ID, ADMIN_CHAT_ID, arg, ret>>

\* The event loop resumes the i-th suspended task: its await returns (or
\* raises, as f says) and the handler runs to its next await.
Resume(i, f) ==
    /\ i \in 1..Len(tasks)
    /\ f.fwd => tasks[i].pc = "forward_message"
    /\ f.admin => tasks[i].pc = "send_message"
    /\ LET t == tasks[i]
           rest == SubSeq(tasks, 1, i - 1) \o SubSeq(tasks, i + 1, Len(tasks))
       IN  Commit("resume", t, t.pc,
                  After(t.handler, t.pc, Context(t.user, t), t.ev, f), rest, i)
    /\ UNCHANGED <<now, last_msg, last_cb, SUPPORT_CHAT_ID, ADMIN_CHAT_ID,
                   arg, ret>>

\* time.monotonic() advances by d, up to the time T.
Tick(d, T) ==
    /\ now + d <= T
    /\ now' = now + d
    /\ out' = NoStep
    /\ UNCHANGED <<last_msg, last_cb, fsm_state, fsm_data, SUPPORT_CHAT_ID,
                   ADMIN_CHAT_ID, tasks, started, delivered, arg, ret>>

\* An update no handler of the router accepts (a "/cancel" button: no
\* callback_query handler has F.data == "cancel"): the dispatcher drops it
\* before any handler, and the middleware around the handlers, is called.
Unhandled(u, ev) ==
    /\ Route(ev, fsm_state[u]) = "UNHANDLED"
    /\ out' = [NoStep EXCEPT !.kind = "unhandled", !.user = u, !.ev = ev,
                             !.pre_state = fsm_state[u],
                             !.pre_data = fsm_data[u]]
    /\ UNCHANGED <<now, last_msg, last_cb, fsm_state, fsm_data,
                   SUPPORT_CHAT_ID, ADMIN_CHAT_ID, tasks, started, delivered,
                   arg, ret>>

\* The state after main() has set up the dispatcher, with SUPPORT_CHAT_ID set
\* or not as S says and ADMIN_CHAT_ID as A says.
Booted(S, A) ==
    /\ now = 0
    /\ last_msg = EmptyDict
    /\ last_cb = EmptyDict
    /\ fsm_state = [u \in Users |-> NoState]
    /\ fsm_data = [u \in Users |-> EmptyDict]
    /\ started = [u \in Users |-> EmptyDict]
    /\ delivered = [u \in Users |-> 0]
    /\ SUPPORT_CHAT_ID \in S
    /\ ADMIN_CHAT_ID \in A
    /\ tasks = <<>>
    /\ out = NoStep

\* The bot as it runs: no function of the module is called on its own.
InitWith(S, A) ==
    /\ Booted(S, A)
    /\ arg = <<>>
    /\ ret = <<>>

\* A call of normalize, on the utterance first and then on what the call
\* before returned.
call_normalize ==
    /\ Len(ret) < 2
    /\ ret' = Append(ret, normalize(IF ret = <<>> THEN arg ELSE ret[Len(ret)]))
    /\ UNCHANGED <<now, last_msg, last_cb, fsm_state, fsm_data,
                   SUPPORT_CHAT_ID, ADMIN_CHAT_ID, tasks, started, delivered,
                   out, arg>>

\* A call of best_faq_answer on an utterance whose similarity to the
\* patterns is arg.
call_best_faq_answer ==
    /\ ret = <<>>
    /\ ret' = <<best_faq_answer(arg)>>
    /\ UNCHANGED <<now, last_msg, last_cb, fsm_state, fsm_data,
                   SUPPORT_CHAT_ID, ADMIN_CHAT_ID, tasks, started, delivered,
                   out, arg>>

Init == InitWith(BOOLEAN, BOOLEAN)

\* ------------------------------------------------------------------ inputs

PlainTexts == {<<"a">>, <<" ", "b", " ">>}

\* Whitespace only; a superscript two; digits and a letter; padded digits.
OddTexts == {<<" ">>, <<"sup2">>, <<"1", "x">>, <<" ", "1", "8", " ">>}

AgeTexts == {str(a) : a \in 0..MaxAge}

CommandTexts ==
    {<<"/", c>> : c \in {"start", "help", "faq", "apply", "contact"}}

Only(k, v) == [x \in PatternKeys |-> IF x = k THEN v ELSE 0]

\* What SequenceMatcher may give for an utterance: nothing similar, one
\* pattern at the threshold, the pattern of the item with an image equal.
ScoreTables == {ZeroScores, Only(<<1, 2, 1>>, threshold), Only(<<2, 1, 1>>, 100)}

\* The messages a user may send in raw state s: at the age prompt the
\* decimal strings of all ages and the texts that are not one, at the other
\* prompts and when idle plain texts, questions and messages without text;
\* the commands everywhere.
Messages(s) ==
    {Msg(t, ZeroScores) : t \in PlainTexts \cup CommandTexts}
    \cup {NoTextMsg}
    \cup (IF s = "age"
          THEN {Msg(t, ZeroScores) : t \in AgeTexts \cup OddTexts}
          ELSE {})
    \cup (IF s = NoState THEN {Msg(<<"q">>, sc) : sc \in ScoreTables} ELSE {})

\* The buttons of the menus the bot renders, and indices past them.
Callbacks ==
    {Cb(d, 0, 0) : d \in {"faq", "apply", "contact"}}
    \cup {Cb("cat", ci, 0) : ci \in {-1, 0, 2}}
    \cup {Cb("item", 0, ii) : ii \in {-1, 1, 2}}

\* The application flow: both ways to start, names and contacts, every age
\* and the texts that are no age at the age prompt, a message without text,
\* a menu button.
FlowEvents(s) ==
    {Cb("apply", 0, 0), Msg(<<"/", "apply">>, ZeroScores), Cb("faq", 0, 0),
     NoTextMsg}
    \cup {Msg(t, ZeroScores) : t \in PlainTexts}
    \cup (IF s = "age"
          THEN {Msg(t, ZeroScores) : t \in AgeTexts \cup OddTexts}
          ELSE {})

\* Log writes that fail: none, or the n-th of a stretch.
NoLogFaults == {0}
LogFaults == 0..2

Faults(LF, fwd, admin) == [log : LF, fwd : fwd, admin : admin]

\* --------------------------------------------------------- specifications

(***************************************************************************)
(* SpecSerial: one user whose updates are handled one at a time (a handler *)
(* returns before the next update is dispatched), the clock moving by      *)
(* limit_msg; forward_message and send_message may fail, the log file is   *)
(* writable.                                                               *)
(***************************************************************************)
NextSerial ==
    \/ Tick(limit_msg, MaxTime)
    \/ \E ev \in FlowEvents(fsm_state["u1"]) :
          AntiFloodMiddleware_call("u1", ev, NoFault, 1)
    \/ \E i \in 1..MaxTasks, f \in Faults(NoLogFaults, BOOLEAN, BOOLEAN) :
          Resume(i, f)

SpecSerial == Init /\ [][NextSerial]_vars

(***************************************************************************)
(* SpecGate: the rate gate.  Two users, the clock moving by tenths of a    *)
(* second up to GateTime; u1 sends messages and presses the apply button,  *)
(* u2 sends messages; no support group, no admin chat.                     *)
(***************************************************************************)
GateEvents(u) ==
    IF u = "u1" THEN {Msg(<<"a">>, ZeroScores), Cb("apply", 0, 0)}
    ELSE {Msg(<<"a">>, ZeroScores)}

NextGate ==
    \/ Tick(1, GateTime)
    \/ \E u \in Users : \E ev \in GateEvents(u) :
          AntiFloodMiddleware_call(u, ev, NoFault, 1)
    \/ \E i \in 1..MaxTasks : Resume(i, NoFault)

SpecGate == InitWith({FALSE}, {FALSE}) /\ [][NextGate]_vars

(***************************************************************************)
(* Spec: the dispatcher as main() starts it.  start_polling handles every  *)
(* update in a task of its own and the FSM has no event isolation, so up   *)
(* to MaxTasks handlers, of the same user too, are suspended at a time.    *)
(* One user sends the commands, presses the buttons and answers the        *)
(* prompts; forward_message and send_message may fail.                     *)
(***************************************************************************)
AllEvents(s) ==
    {Msg(t, ZeroScores) : t \in CommandTexts \cup {<<"a">>}}
    \cup Callbacks
    \cup (IF s = "age" THEN {Msg(str(a), ZeroScores) : a \in {17, 18}} ELSE {})
    \cup (IF s = NoState THEN {Msg(<<"q">>, sc) : sc \in ScoreTables} ELSE {})

Next ==
    \/ Tick(limit_msg, SpecTime)
    \/ \E ev \in AllEvents(fsm_state["u1"]) :
          AntiFloodMiddleware_call("u1", ev, NoFault, MaxTasks)
    \/ \E i \in 1..MaxTasks, f \in Faults(NoLogFaults, BOOLEAN, BOOLEAN) :
          Resume(i, f)

Spec == Init /\ [][Next]_vars

(***************************************************************************)
(* SpecFaults: SpecSerial's one user and serial handling, with every       *)
(* collaborator failing or not: the log file too may be unwritable.        *)
(***************************************************************************)
FaultEvents(s) ==
    {Cb("apply", 0, 0), Msg(<<"a">>, ZeroScores)}
    \cup (IF s = "age" THEN {Msg(str(a), ZeroScores) : a \in {17, 18}} ELSE {})
    \cup (IF s = NoState THEN {Msg(<<"q">>, sc) : sc \in ScoreTables} ELSE {})

NextFaults ==
    \/ Tick(limit_msg, MaxTime)
    \/ \E ev \in FaultEvents(fsm_state["u1"]), l \in LogFaults :
          AntiFloodMiddleware_call("u1", ev, [NoFault EXCEPT !.log = l], 1)
    \/ \E i \in 1..MaxTasks, f \in Faults(LogFaults, BOOLEAN, BOOLEAN) :
          Resume(i, f)

SpecFaults == Init /\ [][NextFaults]_vars

(***************************************************************************)
(* SpecCancel: SpecSerial's one user and serial handling; the user starts  *)
(* an application, answers the prompts and tries to cancel, with the       *)
(* command /cancel and with a button whose data is "cancel".               *)
(***************************************************************************)
CancelEvents(s) ==
    {Cb("apply", 0, 0), Cb("cancel", 0, 0), Msg(<<"/", "cancel">>, ZeroScores),
     Msg(<<"a">>, ZeroScores)}
    \cup (IF s = "age" THEN {Msg(str(a), ZeroScores) : a \in {17, 18}} ELSE {})

NextCancel ==
    \/ Tick(limit_msg, MaxTime)
    \/ \E ev \in CancelEvents(fsm_state["u1"]) :
          AntiFloodMiddleware_call("u1", ev, NoFault, 1)
    \/ \E ev \in CancelEvents(fsm_state["u1"]) : Unhandled("u1", ev)
    \/ \E i \in 1..MaxTasks : Resume(i, NoFault)

SpecCancel == Init /\ [][NextCancel]_vars

(***************************************************************************)
(* SpecFlows: the two flows a message text may go to.  One user, up to     *)
(* MaxTasks handlers suspended at a time as in Spec; the user presses the  *)
(* apply button, answers the four prompts and, when idle, asks questions   *)
(* the knowledge base has or has not an answer to.  The admin chat is set. *)
(***************************************************************************)
TwoFlowsEvents(s) ==
    {Cb("apply", 0, 0), Msg(<<"a">>, ZeroScores)}
    \cup (IF s = "age" THEN {Msg(str(MinAge), ZeroScores)} ELSE {})
    \cup (IF s = NoState THEN {Msg(<<"q">>, sc) : sc \in ScoreTables} ELSE {})

NextFlows ==
    \/ Tick(limit_msg, FlowsTime)
    \/ \E ev \in TwoFlowsEvents(fsm_state["u1"]) :
          AntiFloodMiddleware_call("u1", ev, NoFault, MaxTasks)
    \/ \E i \in 1..MaxTasks : Resume(i, NoFault)

SpecFlows == InitWith(BOOLEAN, {TRUE}) /\ [][NextFlows]_vars

(***************************************************************************)
(* SpecNormalize: normalize applied twice to every utterance of up to      *)
(* MaxLen characters: letters of both cases, whitespace, punctuation.      *)
(***************************************************************************)
Alphabet == {"a", "A", " ", "tab", ".", "-"}

Utterances == UNION {[1..n -> Alphabet] : n \in 0..MaxLen}

SpecNormalize ==
    /\ Booted({FALSE}, {FALSE})
    /\ arg \in Utterances
    /\ ret = <<>>
    /\ [][call_normalize]_vars

(***************************************************************************)
(* SpecResolve: best_faq_answer on every assignment of scores to the       *)
(* patterns: no similarity, just below the threshold, the threshold, equal.*)
(***************************************************************************)
Scores == {0, threshold - 1, threshold, 100}

SpecResolve ==
    /\ Booted({FALSE}, {FALSE})
    /\ arg \in [PatternKeys -> Scores]
    /\ ret = <<>>
    /\ [][call_best_faq_answer]_vars

(***************************************************************************)
(* SpecApply: a whole application with the handlers interleaving.  One     *)
(* user, up to MaxTasks handlers suspended at a time as in Spec; the user  *)
(* presses the apply button and answers the prompts, the age with 17 or    *)
(* 18; the clock runs long enough for five messages.  The admin chat is    *)
(* set and no collaborator fails.                                          *)
(***************************************************************************)
ApplyEvents(s) ==
    {Cb("apply", 0, 0), Msg(<<"a">>, ZeroScores)}
    \cup (IF s = "age"
          THEN {Msg(str(a), ZeroScores) : a \in {MinAge - 1, MinAge}}
          ELSE {})

NextApply ==
    \/ Tick(limit_msg, ApplyTime)
    \/ \E ev \in ApplyEvents(fsm_state["u1"]) :
          AntiFloodMiddleware_call("u1", ev, NoFault, MaxTasks)
    \/ \E i \in 1..MaxTasks : Resume(i, NoFault)

SpecApply == InitWith(BOOLEAN, {TRUE}) /\ [][NextApply]_vars

\* ------------------------------------------------------------------ claims

\* The user of the last step, and whether the step ended a handler.
U == out.user

Finished == out.kind \in {"admit", "resume"} /\ out.next = "done"

Emitted(r) == \E i \in 1..Len(out.replies) : out.replies[i] = r

\* A non-empty text of decimal digits only.
IsDecimal(t) == t # <<>> /\ \A i \in 1..Len(t) : t[i] \in DecimalDigits

AllFields == {"name", "age", "contact", "experience"}

\* C1: when apply_age has handled the decimal string of an age a in the state
\* Apply.age, then for a < 18 the user is idle, the data is empty and the
\* only reply is the age restriction; for a >= 18 the state is Apply.contact
\* and data["age"] is a.
C1_AgeGate ==
    \A a \in 0..MaxAge :
        (/\ Finished
         /\ out.handler = "apply_age"
         /\ out.pre_state = "age"
         /\ out.ev.has_text
         /\ out.ev.text = str(a))
        => IF a < 18
           THEN /\ fsm_state[U] = NoState
                /\ fsm_data[U] = EmptyDict
                /\ out.replies = <<Reply("age_restricted")>>
           ELSE /\ fsm_state[U] = "contact"
                /\ Get(fsm_data[U], "age") = <<a>>

\* C1's case: the age 18 was entered and the flow went on to the contact.
C1_Witness ==
    /\ Finished
    /\ out.handler = "apply_age"
    /\ out.ev.text = str(18)
    /\ fsm_state[U] = "contact"
    /\ Get(fsm_data[U], "age") = <<18>>

\* C2: when start_apply has run for a user who was in one of the four Apply
\* states, the state is Apply.name and the data is empty.
C2_RestartDiscards ==
    (/\ Finished
     /\ out.handler = "start_apply"
     /\ out.exc = ""
     /\ out.pre_state # NoState)
    => /\ fsm_state[U] = "name"
       /\ fsm_data[U] = EmptyDict

\* C3: when apply_done has handled a text, the user is idle with empty data,
\* the only reply is the confirmation, what was accepted since the last
\* start_apply are the four fields, the experience being the trimmed text,
\* and the summary handed to the admin chat (when one is set) holds exactly
\* these, in the order name, age, contact, experience.
C3_Completion ==
    (/\ Finished
     /\ out.handler = "apply_done"
     /\ out.ev.has_text)
    => /\ fsm_state[U] = NoState
       /\ fsm_data[U] = EmptyDict
       /\ out.replies = <<Reply("confirmation")>>
       /\ DOMAIN out.accepted = AllFields
       /\ out.accepted["experience"] = strip(out.ev.text)
       /\ ADMIN_CHAT_ID =>
             out.staff = << << <<out.accepted["name"]>>, <<out.accepted["age"]>>,
                               <<out.accepted["contact"]>>,
                               <<out.accepted["experience"]>> >> >>

\* C3's case: an application was completed and its summary handed over.
C3_Witness ==
    /\ Finished
    /\ out.handler = "apply_done"
    /\ out.staff # <<>>
    /\ out.accepted["name"] = <<"b">>

\* C7: when apply_age has handled a text whose trimmed form is not made of
\* decimal digits only, the state is still Apply.age, the data is what it
\* was and the only reply is the request for digits.
C7_NonDigitReprompt ==
    (/\ Finished
     /\ out.handler = "apply_age"
     /\ out.pre_state = "age"
     /\ out.ev.has_text
     /\ ~IsDecimal(strip(out.ev.text)))
    => /\ fsm_state[U] = "age"
       /\ fsm_data[U] = out.pre_data
       /\ out.replies = <<Reply("digits_please")>>

\* C10: once apply_done has handed the summary to the admin chat, the
\* confirmation has been emitted and the user is idle with empty data; when
\* the delivery failed, apply_done has returned without an exception and the
\* confirmation is the only reply.
C10_ConfirmedBeforeDelivery ==
    (out.handler = "apply_done" /\ out.staff # <<>>)
    => /\ Emitted(Reply("confirmation"))
       /\ fsm_state[U] = NoState
       /\ fsm_data[U] = EmptyDict
       /\ "admin" \in out.failed =>
             /\ Finished
             /\ out.exc = ""
             /\ out.replies = <<Reply("confirmation")>>

\* C10's case: the delivery of a summary to the admin chat failed.
C10_Witness ==
    /\ out.handler = "apply_done"
    /\ out.staff # <<>>
    /\ "admin" \in out.failed

\* The handler an explicit navigation event has of its own ("": the event is
\* no navigation event).
NavHandler(ev) ==
    CASE IsCommand(ev, "faq") -> "on_faq"
      [] IsCommand(ev, "apply") -> "start_apply"
      [] IsCommand(ev, "contact") -> "contact"
      [] ev.cls = "callback" /\ ev.data = "faq" -> "cb_faq"
      [] ev.cls = "callback" /\ ev.data = "cat" -> "cb_category"
      [] ev.cls = "callback" /\ ev.data = "item" -> "cb_item"
      [] ev.cls = "callback" /\ ev.data = "apply" -> "start_apply"
      [] ev.cls = "callback" /\ ev.data = "contact" -> "contact"
      [] OTHER -> ""

\* C4: an admitted navigation event, command or button, is given to its own
\* handler whatever the user's state: never to a handler of the application
\* flow as the text of a field, never to on_free_text.
C4_NavigationDispatched ==
    (out.kind = "admit" /\ NavHandler(out.ev) # "")
    => out.handler = NavHandler(out.ev)

\* C5: an event of a user who has a last admitted time in the event's class is
\* dropped when it comes less than the class's limit after that time, and
\* otherwise is admitted and its time becomes the last admitted time.
C5_RateGate ==
    [][\A u \in Users :
        /\ (/\ out'.kind \in {"admit", "reject"}
            /\ out'.user = u
            /\ out'.ev.cls = "message"
            /\ u \in DOMAIN last_msg)
           => IF now - last_msg[u] < limit_msg
              THEN out'.kind = "reject"
              ELSE out'.kind = "admit" /\ last_msg'[u] = now
        /\ (/\ out'.kind \in {"admit", "reject"}
            /\ out'.user = u
            /\ out'.ev.cls = "callback"
            /\ u \in DOMAIN last_cb)
           => IF now - last_cb[u] < limit_cb
              THEN out'.kind = "reject"
              ELSE out'.kind = "admit" /\ last_cb'[u] = now]_vars

\* C5's case: u1's second message was dropped one tenth of a second before
\* the limit; u1 presses buttons too, and u2 has been admitted.
C5_Witness ==
    /\ out.kind = "reject"
    /\ U = "u1"
    /\ out.ev.cls = "message"
    /\ "u1" \in DOMAIN last_msg
    /\ now - last_msg["u1"] = limit_msg - 1
    /\ "u1" \in DOMAIN last_cb
    /\ "u2" \in DOMAIN last_msg

\* C6: a dropped event leaves the states, the data, both dicts of last
\* admitted times and the suspended handlers as they were, starts no handler
\* and emits nothing; a dropped callback query is answered.
C6_RejectionFrame ==
    [][out'.kind = "reject"
       => /\ fsm_state' = fsm_state
          /\ fsm_data' = fsm_data
          /\ last_msg' = last_msg
          /\ last_cb' = last_cb
          /\ tasks' = tasks
          /\ out'.handler = ""
          /\ out'.replies = <<>>
          /\ out'.staff = <<>>
          /\ out'.acked = (out'.ev.cls = "callback")]_vars

\* C6's case: a button pressed too early by a user in the middle of the
\* application, some time after the last admitted one.
C6_Witness ==
    /\ out.kind = "reject"
    /\ out.ev.cls = "callback"
    /\ out.acked
    /\ fsm_state[U] # NoState
    /\ fsm_data[U] # EmptyDict
    /\ now > last_cb[U]

\* C8: the handling of an event of a user is over before the handling of
\* the user's next event begins: no two handlers of one user are suspended
\* at the same time.
C8_PerUserSerial ==
    \A i, j \in 1..Len(tasks) : i # j => tasks[i].user # tasks[j].user

\* The handling of the event of the last step had no collaborator failed:
\* the handler run from the state and data it was dispatched in, every
\* await returning normally.
RECURSIVE RunOn(_, _, _)
RunOn(h, ev, c) ==
    IF c.pc = "done" THEN c
    ELSE RunOn(h, ev, After(h, c.pc, [c EXCEPT !.pc = "run", !.nlog = 0], ev, NoFault))

Reference ==
    RunOn(out.handler, out.ev,
          Begin(out.handler,
                [state |-> out.pre_state, data |-> out.pre_data,
                 acc |-> EmptyDict, pc |-> "run", replies |-> <<>>,
                 staff |-> <<>>, acked |-> FALSE, exc |-> "",
                 printed |-> <<>>, nlog |-> 0, failed |-> {},
                 loc |-> EmptyDict, accloc |-> EmptyDict, ndel |-> 0],
                out.ev, NoFault))

\* C9: when a handling in which a collaborator call failed (the forward to
\* the support group, the summary to the admin chat, a log write) is over,
\* the user's state and data and the replies are those of the same handling
\* with no failure.
C9_FailuresAreCaught ==
    (Finished /\ out.failed # {})
    => /\ fsm_state[U] = Reference.state
       /\ fsm_data[U] = Reference.data
       /\ out.replies = Reference.replies

\* An explicit cancel action: the command /cancel or the button "cancel".
IsCancel(ev) ==
    \/ IsCommand(ev, "cancel")
    \/ ev.cls = "callback" /\ ev.data = "cancel"

\* C11: when the handling of a cancel action of a user who was in one of the
\* four Apply states is over, the user is idle, the data is empty and no
\* field holds the text of the cancel action.
C11_CancelResets ==
    (/\ IsCancel(out.ev)
     /\ out.kind = "unhandled" \/ Finished
     /\ out.pre_state # NoState)
    => /\ fsm_state[U] = NoState
       /\ fsm_data[U] = EmptyDict
       /\ \A k \in DOMAIN fsm_data[U] : fsm_data[U][k] # strip(out.ev.text)

\* A message with a text that is no command.
PlainText(ev) ==
    /\ ev.cls = "message"
    /\ ev.has_text
    /\ ~(Len(ev.text) >= 1 /\ ev.text[1] = "/")

\* The handler of the application flow that takes the input of state s.
FlowHandler(s) ==
    CASE s = "name" -> "apply_name"
      [] s = "age" -> "apply_age"
      [] s = "contact" -> "apply_contact"
      [] s = "experience" -> "apply_done"

\* What on_free_text replies with the result of best_faq_answer.
KBReply(r) == r[1] \in {"answer", "photo", "fallback"}

\* C12: every step of the handling of an admitted message whose text is no
\* command belongs to one flow, chosen by the state the user was in when the
\* message was dispatched: in an Apply state the handler of that state, which
\* replies with no result of best_faq_answer; when idle on_free_text, whose
\* replies are results of best_faq_answer and whose steps leave the user's
\* state and data as they are.
C12_OneFlow ==
    [][(out'.kind \in {"admit", "resume"} /\ PlainText(out'.ev))
       => IF out'.pre_state # NoState
          THEN /\ out'.handler = FlowHandler(out'.pre_state)
               /\ \A i \in 1..Len(out'.replies) : ~KBReply(out'.replies[i])
          ELSE /\ out'.handler = "on_free_text"
               /\ \A i \in 1..Len(out'.replies) : KBReply(out'.replies[i])
               /\ fsm_state' = fsm_state
               /\ fsm_data' = fsm_data]_vars

\* C12's case: a question of an idle user was answered from the knowledge
\* base after the user had, in the meantime, started an application.
C12_Witness ==
    /\ Finished
    /\ out.handler = "on_free_text"
    /\ PlainText(out.ev)
    /\ out.pre_state = NoState
    /\ Emitted(<<"answer", 1, 2>>)
    /\ fsm_state[U] = "name"

\* C13: normalize applied to what normalize returned returns the same.
C13_NormalizeIdempotent ==
    Len(ret) = 2 => ret[2] = ret[1]

\* The patterns of the knowledge base, and their order: category, then item,
\* then pattern.
AllPatterns ==
    UNION {UNION {{<<c, i, p>> : p \in 1..Len(CATEGORIES[c].items[i].patterns)} :
                  i \in 1..Len(CATEGORIES[c].items)} :
           c \in 1..Len(CATEGORIES)}

Before(k, l) ==
    \/ k[1] < l[1]
    \/ k[1] = l[1] /\ k[2] < l[2]
    \/ k[1] = l[1] /\ k[2] = l[2] /\ k[3] < l[3]

MaxScore(sc) ==
    CHOOSE m \in {sc[k] : k \in AllPatterns} : \A k \in AllPatterns : sc[k] <= m

FirstAt(sc, m) ==
    CHOOSE k \in AllPatterns :
        /\ sc[k] = m
        /\ \A l \in AllPatterns : sc[l] = m => l = k \/ Before(k, l)

\* C14: best_faq_answer returns the greatest score of all patterns; with it
\* the item of the first pattern, in the order category, item, pattern, that
\* has this score when the score is at least the threshold, and no item when
\* it is less.
C14_Resolve ==
    (ret # <<>> /\ DOMAIN arg = AllPatterns)
    => LET m == MaxScore(arg)
           k == FirstAt(arg, m)
       IN  /\ ret[1].score = m
           /\ ret[1].item = IF m >= threshold THEN <<(<<k[1], k[2]>>)>> ELSE <<>>

\* C14's case: a pattern of the second item and the pattern of the third are
\* equal to the utterance, no pattern of the first is: the second is returned.
C14_Witness ==
    /\ ret # <<>>
    /\ DOMAIN arg = AllPatterns
    /\ arg[<<1, 1, 1>>] < 100 /\ arg[<<1, 1, 2>>] = threshold
    /\ arg[<<1, 2, 1>>] = 100 /\ arg[<<2, 1, 1>>] = 100
    /\ ret[1] = [item |-> <<(<<1, 2>>)>>, score |-> 100]

\* The fields of the states that come before state s.
Passed(s) ==
    CASE s = NoState -> {}
      [] s = "name" -> {}
      [] s = "age" -> {"name"}
      [] s = "contact" -> {"name", "age"}
      [] s = "experience" -> {"name", "age", "contact"}

\* C15: while no handler of a user is running, the user's data holds only
\* fields of states that come before the user's state: none when idle and at
\* the name prompt, at most the name at the age prompt, and so on.
C15_FieldsOfPassedStates ==
    \A u \in Users :
        (\A i \in 1..Len(tasks) : tasks[i].user # u)
        => DOMAIN fsm_data[u] \subseteq Passed(fsm_state[u])

\* The changes of state of the application flow: the start from any state,
\* the four steps forward, the two exits.
Transitions ==
    {<<s, "name">> : s \in {NoState} \cup ApplyStates}
    \cup {<<"name", "age">>, <<"age", "contact">>, <<"age", NoState>>,
          <<"contact", "experience">>, <<"experience", NoState>>}

\* C16: every change of a user's state is one of Transitions.
C16_LinearOrder ==
    [][\A u \in Users :
          fsm_state'[u] # fsm_state[u]
          => <<fsm_state[u], fsm_state'[u]>> \in Transitions]_vars

\* C17: when the handling of an admitted message, with or without text, is
\* over, the user has been sent a reply and no exception ended the handler.
C17_AlwaysReplies ==
    (Finished /\ out.ev.cls = "message")
    => /\ out.replies # <<>>
       /\ out.exc = ""

\* The indices of a "cat:ci" or "item:ci:ii" callback query are outside the
\* categories, or the items of the category.
OutOfRange(ev) ==
    \/ ev.ci \notin 0..(Len(CATEGORIES) - 1)
    \/ /\ ev.data = "item"
       /\ ev.ii \notin 0..(Len(CATEGORIES[ev.ci + 1].items) - 1)

\* C18: cb_category and cb_item given an index outside the categories or the
\* items, a negative one too, end with an IndexError, reply nothing and
\* leave the user's state and data as they are.
C18_BoundsChecked ==
    [][(/\ out'.kind = "admit"
        /\ out'.handler \in {"cb_category", "cb_item"}
        /\ OutOfRange(out'.ev))
       => /\ out'.exc = "IndexError"
          /\ out'.replies = <<>>
          /\ fsm_state' = fsm_state
          /\ fsm_data' = fsm_data]_vars

\* C20: an event of a user who has no last admitted time in the event's
\* class is admitted, whatever the clock shows.
C20_FirstAdmitted ==
    [][\A u \in Users :
          (/\ out'.kind \in {"admit", "reject"}
           /\ out'.user = u
           /\ u \notin DOMAIN Last(out'.ev))
          => out'.kind = "admit"]_vars

\* C19: a summary that send_message has delivered to the admin chat holds
\* the four fields, none None, with an age of at least 18, and no user has
\* had more than one summary delivered since the user's last start_apply.
C19_SummariesComplete ==
    /\ (/\ out.kind = "resume"
        /\ out.pc = "send_message"
        /\ "admin" \notin out.failed)
       => /\ \A i \in 1..4 : out.staff[1][i] # <<>>
          /\ out.staff[1][2][1] >= MinAge
    /\ \A u \in Users : delivered[u] <= 1

====
